---- MODULE Spec2Model ----
(***************************************************************************)
(* Model of the arena_chat_db server (src/server.js): the messages and     *)
(* deleted_messages tables, the socket.io rooms, and the handlers that     *)
(* send, fetch and delete messages.  Every awaited pool.query is one step  *)
(* of its handler: the step runs the query against the tables and then the *)
(* handler's code up to the next await (or to its end).  Handlers of       *)
(* different requests interleave at those awaits.                          *)
(***************************************************************************)
EXTENDS Integers, Sequences, FiniteSets, Bags, TLC

\* ---------------------------------------------------------------- bounds
MaxOps == 2       \* requests the server accepts in one run
MaxClock == 1     \* last value of the database clock (the first is 0)

\* ---------------------------------------------------------------- inputs
Users == {1, 2, 3}                 \* ids of the rows of the users table
Missing == 0                       \* an absent (falsy) id in a payload
Texts == {"", "hi"}                \* messageText of a request
MessageIds == {1, 2}               \* messageId of a delete request
Sessions == {"s1", "s2"}           \* sockets
Http == "http"                     \* origin of a request that came over HTTP
Statuses == {"sent", "delivered", "read"}   \* status of a message_status_update

VARIABLES
  messages,          \* rows of table messages
  deleted_messages,  \* rows of table deleted_messages, as a bag of (message_id, user_id)
  nextId,            \* next value of the messages.id sequence
  inserted,          \* ids of all rows ever inserted into messages
  now,               \* the latest CURRENT_TIMESTAMP the database has handed out
  conn,              \* socket -> "connected" | "disconnected"
  rooms,             \* socket -> the rooms it joined
  inbox,             \* socket -> bag of the events emitted to it
  handlers,          \* bag of the handlers suspended at an await
  ops,               \* number of requests accepted so far
  done               \* the handler that ended in the last step, with its response

vars == <<messages, deleted_messages, nextId, inserted, now, conn, rooms, inbox,
          handlers, ops, done>>

\* ---------------------------------------------------------------- records
NoHandler ==
  [op |-> "", socket |-> "", pc |-> "", senderId |-> 0, receiverId |-> 0,
   messageText |-> "", messageId |-> 0, userId |-> 0, deleteType |-> "",
   issued |-> 0, savedId |-> 0, savedAt |-> 0, rowSender |-> 0, rowReceiver |-> 0,
   removed |-> FALSE, status |-> ""]

NoDone ==
  [op |-> "", socket |-> "", status |-> "", messageId |-> 0, userId |-> 0,
   peer |-> 0, fault |-> FALSE, existed |-> FALSE, sent |-> FALSE,
   removed |-> FALSE, forMe |-> FALSE, rowSender |-> 0, rowReceiver |-> 0,
   messages |-> <<>>]

NoEvent ==
  [type |-> "", id |-> 0, senderId |-> 0, receiverId |-> 0, messageText |-> "",
   senderName |-> "", timestamp |-> 0, status |-> "", userId |-> 0,
   isTyping |-> FALSE, chatWithUserId |-> 0, isOnline |-> FALSE, lastSeen |-> 0]

\* ---------------------------------------------------------------- tables
\* INSERT INTO messages (...) RETURNING id, created_at: status defaults to 'sent'
MessageRow(id, senderId, receiverId, messageText, at) ==
  [id |-> id, sender_id |-> senderId, receiver_id |-> receiverId,
   message_text |-> messageText, status |-> "sent", created_at |-> at]

Marker(messageId, userId) == [message_id |-> messageId, user_id |-> userId]

Markers == BagToSet(deleted_messages)

\* deleted_messages.message_id REFERENCES messages(id), user_id REFERENCES users(id)
MarkerForeignKeysHold(messageId, userId) ==
  /\ \E m \in messages : m.id = messageId
  /\ userId \in Users

\* mutant: a plain INSERT into a table without the UNIQUE constraint
InsertMarkerAlways(messageId, userId) ==
  deleted_messages (+) SetToBag({Marker(messageId, userId)})

\* INSERT INTO deleted_messages (message_id, user_id) ... ON CONFLICT DO NOTHING
InsertMarker(messageId, userId) ==
  IF BagIn(Marker(messageId, userId), deleted_messages)
  THEN deleted_messages
  ELSE deleted_messages (+) SetToBag({Marker(messageId, userId)})

\* mutant: deleted_messages.message_id without its foreign key
DeleteIsUnrestricted(messageId) == FALSE

\* DELETE FROM messages WHERE id = $1 is refused while a deleted_messages row
\* references the message (the foreign key has no ON DELETE action)
DeleteIsRestricted(messageId) ==
  /\ \E m \in messages : m.id = messageId
  /\ \E d \in Markers : d.message_id = messageId

DeleteMessageRow(messageId) == {m \in messages : m.id # messageId}

\* DELETE FROM deleted_messages WHERE message_id = $1
DeleteMarkers(messageId) ==
  [d \in {x \in Markers : x.message_id # messageId} |-> deleted_messages[d]]

\* mutant: the permission check of delete-for-me used for delete-for-everyone
SenderCheckAnyParticipant(messageId, userId) ==
  {m \in messages : m.id = messageId /\ (m.sender_id = userId \/ m.receiver_id = userId)}

\* SELECT * FROM messages WHERE id = $1 AND sender_id = $2
SenderCheck(messageId, userId) ==
  {m \in messages : m.id = messageId /\ m.sender_id = userId}

\* SELECT * FROM messages WHERE id = $1 AND (sender_id = $2 OR receiver_id = $2)
ParticipantCheck(messageId, userId) ==
  {m \in messages : m.id = messageId /\ (m.sender_id = userId \/ m.receiver_id = userId)}

\* SELECT m.*, u.name ... FROM messages m JOIN users u ON m.sender_id = u.id WHERE m.id = $1
MessageDetails(messageId) ==
  {m \in messages : m.id = messageId /\ m.sender_id \in Users}

\* ---------------------------------------------------------------- history
\* mutant: the markers of the other user ($2) hide the rows
HistoryRowsOther(user1Id, user2Id) ==
  {m \in messages :
     /\ m.sender_id \in Users
     /\ \/ (m.sender_id = user1Id /\ m.receiver_id = user2Id)
        \/ (m.sender_id = user2Id /\ m.receiver_id = user1Id)
     /\ m.id \notin {d.message_id : d \in {x \in Markers : x.user_id = user2Id}}}

\* mutant: every message of user1Id, whoever the peer is
HistoryRowsAnyPeer(user1Id, user2Id) ==
  {m \in messages :
     /\ m.sender_id \in Users
     /\ (m.sender_id = user1Id \/ m.receiver_id = user1Id)
     /\ m.id \notin {d.message_id : d \in {x \in Markers : x.user_id = user1Id}}}

\* the WHERE clause of GET /api/messages/:user1Id/:user2Id
HistoryRows(user1Id, user2Id) ==
  {m \in messages :
     /\ m.sender_id \in Users
     /\ \/ (m.sender_id = user1Id /\ m.receiver_id = user2Id)
        \/ (m.sender_id = user2Id /\ m.receiver_id = user1Id)
     /\ m.id \notin {d.message_id : d \in {x \in Markers : x.user_id = user1Id}}}

\* mutant: ORDER BY m.id
OrderKeyById(m) == m.id

\* the key of ORDER BY m.created_at ASC
OrderKey(m) == m.created_at

\* every sequence ORDER BY may return for the rows S: rows of equal key come in any order
RECURSIVE OrderBy(_)
OrderBy(S) ==
  IF S = {} THEN {<<>>}
  ELSE UNION { { <<m>> \o rest : rest \in OrderBy(S \ {m}) } :
               m \in {x \in S : \A y \in S : OrderKey(x) <= OrderKey(y)} }

History(user1Id, user2Id) == OrderBy(HistoryRows(user1Id, user2Id))

\* ---------------------------------------------------------------- rooms
\* the sockets io.to(room) reaches
InRoom(room) == {s \in Sessions : conn[s] = "connected" /\ room \in rooms[s]}

Deliver(box, targets, ev) ==
  [s \in Sessions |-> IF s \in targets THEN box[s] (+) SetToBag({ev}) ELSE box[s]]

\* mutant: io.emit(...), which reaches every connected socket
ToEveryone(box, room, ev) ==
  Deliver(box, {s \in Sessions : conn[s] = "connected"}, ev)

\* io.emit(...)
ToAll(box, ev) == Deliver(box, {s \in Sessions : conn[s] = "connected"}, ev)

\* io.to(room).emit(...)
ToRoom(box, room, ev) == Deliver(box, InRoom(room), ev)

\* socket.emit(...): dropped when the socket is gone
ToSocket(box, s, ev) ==
  Deliver(box, {x \in Sessions : x = s /\ conn[x] = "connected"}, ev)

ErrorEvent(type) == [NoEvent EXCEPT !.type = type]

DeletedEvent(messageId) == [NoEvent EXCEPT !.type = "message_deleted", !.id = messageId]

\* SELECT name FROM users WHERE id = $1, then rows[0]?.name || 'Unknown'
SenderName(senderId) ==
  CASE senderId = 1 -> "user1"
    [] senderId = 2 -> "user2"
    [] senderId = 3 -> "user3"
    [] OTHER -> "Unknown"

\* mutant: the payload is built from the newest row of the table
MessageDataOfNewest(h) ==
  LET newest == CHOOSE m \in messages \cup {MessageRow(0, 0, 0, "", 0)} :
                  \A n \in messages : n.id <= m.id
  IN [NoEvent EXCEPT !.type = "new_message", !.id = newest.id,
                     !.senderId = h.senderId, !.receiverId = h.receiverId,
                     !.messageText = h.messageText,
                     !.senderName = SenderName(h.senderId),
                     !.timestamp = newest.created_at, !.status = "sent"]

\* messageData of send_message; the ids of a payload are integers here, and
\* parseInt of an integer is that integer
MessageData(h) ==
  [NoEvent EXCEPT !.type = "new_message", !.id = h.savedId, !.senderId = h.senderId,
                  !.receiverId = h.receiverId, !.messageText = h.messageText,
                  !.senderName = SenderName(h.senderId), !.timestamp = h.savedAt,
                  !.status = "sent"]

\* ---------------------------------------------------------------- helpers
Add(h) == handlers (+) SetToBag({h})
Drop(h) == handlers (-) SetToBag({h})
Move(h, g) == (handlers (-) SetToBag({h})) (+) SetToBag({g})
Suspended == BagToSet(handlers)

Accept == ops < MaxOps /\ ops' = ops + 1

Store == <<messages, deleted_messages, nextId, inserted>>
Sockets == <<conn, rooms>>

\* The server starts on the database it finds (CREATE TABLE IF NOT EXISTS): an
\* empty one, or one that holds the message an earlier run stored.  Its sockets
\* have connected (io.on('connection') only registers the handlers) and have
\* joined no room yet.
InitialMessages == {{}, {MessageRow(1, 1, 2, "hi", 0)}}

Init ==
  /\ messages \in InitialMessages
  /\ deleted_messages = EmptyBag
  /\ nextId = Cardinality(messages) + 1
  /\ inserted = {m.id : m \in messages}
  /\ now = 0
  /\ conn = [s \in Sessions |-> "connected"]
  /\ rooms = [s \in Sessions |-> {}]
  /\ inbox = [s \in Sessions |-> EmptyBag]
  /\ handlers = EmptyBag
  /\ ops = 0
  /\ done = NoDone

\* ---------------------------------------------------------------- sockets
\* socket.on('join_user'): socket.join(userId.toString())
JoinUser(s, userId) ==
  /\ conn[s] = "connected"
  /\ userId \notin rooms[s]
  /\ rooms' = [rooms EXCEPT ![s] = @ \cup {userId}]
  /\ done' = NoDone
  /\ UNCHANGED <<Store, now, conn, inbox, handlers, ops>>

\* socket.on('disconnect'): the socket leaves its rooms
Disconnect(s) ==
  /\ conn[s] = "connected"
  /\ conn' = [conn EXCEPT ![s] = "disconnected"]
  /\ rooms' = [rooms EXCEPT ![s] = {}]
  /\ done' = NoDone
  /\ UNCHANGED <<Store, now, inbox, handlers, ops>>

\* ---------------------------------------------------------------- send_message
\* mutant: the handler without its validation
MissingFieldsUnchecked(senderId, receiverId, messageText) == FALSE

\* !senderId || !receiverId || !messageText
MissingFields(senderId, receiverId, messageText) ==
  senderId = Missing \/ receiverId = Missing \/ messageText = ""

\* messages.sender_id and receiver_id REFERENCES users(id)
MessageForeignKeysHold(senderId, receiverId) ==
  senderId \in Users /\ receiverId \in Users

\* socket.on('send_message'): validation, then the INSERT is issued
SendMessage(s, senderId, receiverId, messageText) ==
  /\ conn[s] = "connected"
  /\ Accept
  /\ IF MissingFields(senderId, receiverId, messageText)
     THEN /\ inbox' = ToSocket(inbox, s, ErrorEvent("message_error"))
          /\ done' = [NoDone EXCEPT !.op = "send_message", !.socket = s,
                                    !.status = "invalid"]
          /\ UNCHANGED handlers
     ELSE /\ handlers' = Add([NoHandler EXCEPT !.op = "send_message", !.socket = s,
                                !.pc = "insert", !.senderId = senderId,
                                !.receiverId = receiverId,
                                !.messageText = messageText, !.issued = now])
          /\ done' = NoDone
          /\ UNCHANGED inbox
  /\ UNCHANGED <<Store, now, Sockets>>

\* the catch block of send_message
SendFailed(h) ==
  /\ inbox' = ToSocket(inbox, h.socket, ErrorEvent("message_error"))
  /\ handlers' = Drop(h)
  /\ done' = [NoDone EXCEPT !.op = "send_message", !.socket = h.socket,
                            !.status = "error", !.fault = TRUE,
                            !.messageId = h.savedId, !.userId = h.senderId,
                            !.peer = h.receiverId]

\* mutant: the id is one more than the largest id in the table
NextvalAfterMax ==
  IF messages = {} THEN 1
  ELSE (CHOOSE i \in {m.id : m \in messages} : \A m \in messages : m.id <= i) + 1

\* id SERIAL PRIMARY KEY: the next value of the sequence of messages.id
Nextval == nextId

\* mutant: the send is given up when its socket has disconnected
SendInsertCancels(h, ok, at) ==
  /\ h.op = "send_message" /\ h.pc = "insert"
  /\ at = h.issued
  /\ handlers' = Drop(h)
  /\ done' = [NoDone EXCEPT !.op = "send_message", !.socket = h.socket,
                            !.status = "cancelled", !.userId = h.senderId,
                            !.peer = h.receiverId]
  /\ conn[h.socket] = "disconnected"
  /\ ok
  /\ UNCHANGED <<Store, now, Sockets, inbox, ops>>

\* await pool.query(INSERT INTO messages ... RETURNING id, created_at).
\* created_at is CURRENT_TIMESTAMP of the statement: the clock is read when the
\* statement starts, at any time after the request was made, so it is no earlier
\* than any timestamp handed out before the request (h.issued), and statements of
\* overlapping requests may read it in either order.
SendInsert(h, ok, at) ==
  /\ h.op = "send_message" /\ h.pc = "insert"
  /\ IF ok /\ MessageForeignKeysHold(h.senderId, h.receiverId)
     THEN /\ at \in h.issued .. MaxClock
          /\ now' = IF at > now THEN at ELSE now
          /\ messages' = messages \cup
               {MessageRow(Nextval, h.senderId, h.receiverId, h.messageText, at)}
          /\ nextId' = Nextval + 1
          /\ inserted' = inserted \cup {Nextval}
          /\ handlers' = Move(h, [h EXCEPT !.pc = "lookup", !.savedId = Nextval,
                                           !.savedAt = at])
          /\ done' = NoDone
          /\ UNCHANGED inbox
     ELSE /\ at = h.issued
          /\ SendFailed(h)
          /\ UNCHANGED <<messages, nextId, inserted, now>>
  /\ UNCHANGED <<deleted_messages, Sockets, ops>>

\* mutant: the broadcast does not wait for the INSERT
SendLookupEarly(h, ok) ==
  /\ h.op = "send_message" /\ h.pc \in {"insert", "lookup"}
  /\ IF ok
     THEN /\ inbox' = ToRoom(ToRoom(inbox, h.receiverId, MessageData(h)),
                             h.senderId, MessageData(h))
          /\ handlers' = Drop(h)
          /\ done' = [NoDone EXCEPT !.op = "send_message", !.socket = h.socket,
                                    !.status = "ok", !.sent = TRUE,
                                    !.messageId = h.savedId, !.userId = h.senderId,
                                    !.peer = h.receiverId]
     ELSE SendFailed(h)
  /\ UNCHANGED <<Store, now, Sockets, ops>>

\* mutant: the message is published to the receiver's room only
SendLookupReceiverOnly(h, ok) ==
  /\ h.op = "send_message" /\ h.pc = "lookup"
  /\ IF ok
     THEN /\ inbox' = ToRoom(inbox, h.receiverId, MessageData(h))
          /\ handlers' = Drop(h)
          /\ done' = [NoDone EXCEPT !.op = "send_message", !.socket = h.socket,
                                    !.status = "ok", !.sent = TRUE,
                                    !.messageId = h.savedId, !.userId = h.senderId,
                                    !.peer = h.receiverId]
     ELSE SendFailed(h)
  /\ UNCHANGED <<Store, now, Sockets, ops>>

\* mutant: nothing is published when the receiver has no socket
SendLookupNeedsReceiver(h, ok) ==
  /\ h.op = "send_message" /\ h.pc = "lookup"
  /\ IF ok
     THEN /\ inbox' = IF InRoom(h.receiverId) = {} THEN inbox
                      ELSE ToRoom(ToRoom(inbox, h.receiverId, MessageData(h)),
                                  h.senderId, MessageData(h))
          /\ handlers' = Drop(h)
          /\ done' = [NoDone EXCEPT !.op = "send_message", !.socket = h.socket,
                                    !.status = "ok", !.sent = TRUE,
                                    !.messageId = h.savedId, !.userId = h.senderId,
                                    !.peer = h.receiverId]
     ELSE SendFailed(h)
  /\ UNCHANGED <<Store, now, Sockets, ops>>

\* await pool.query(SELECT name FROM users ...), then the two io.to(...).emit
SendLookup(h, ok) ==
  /\ h.op = "send_message" /\ h.pc = "lookup"
  /\ IF ok
     THEN /\ inbox' = ToRoom(ToRoom(inbox, h.receiverId, MessageData(h)),
                             h.senderId, MessageData(h))
          /\ handlers' = Drop(h)
          /\ done' = [NoDone EXCEPT !.op = "send_message", !.socket = h.socket,
                                    !.status = "ok", !.sent = TRUE,
                                    !.messageId = h.savedId, !.userId = h.senderId,
                                    !.peer = h.receiverId]
     ELSE SendFailed(h)
  /\ UNCHANGED <<Store, now, Sockets, ops>>

\* ---------------------------------------------------------------- history
\* GET /api/messages/:user1Id/:user2Id
GetMessages(user1Id, user2Id) ==
  /\ Accept
  /\ \E result \in History(user1Id, user2Id) :
       done' = [NoDone EXCEPT !.op = "get_messages", !.socket = Http,
                             !.status = "200", !.userId = user1Id,
                             !.peer = user2Id, !.messages = result]
  /\ UNCHANGED <<Store, now, Sockets, inbox, handlers>>

\* ---------------------------------------------------------------- delete for me (HTTP)
DeleteDone(h, status) ==
  [NoDone EXCEPT !.op = h.op, !.socket = h.socket, !.status = status,
                 !.messageId = h.messageId, !.userId = h.userId,
                 !.removed = h.removed, !.forMe = (h.deleteType = "for_me"),
                 !.rowSender = h.rowSender, !.rowReceiver = h.rowReceiver]

\* the catch block of an HTTP delete route: status 500
HttpFailed(h) ==
  /\ handlers' = Drop(h)
  /\ done' = [DeleteDone(h, "500") EXCEPT !.fault = TRUE]
  /\ UNCHANGED inbox

\* DELETE /api/messages/delete-for-me
DeleteForMe(messageId, userId) ==
  /\ Accept
  /\ handlers' = Add([NoHandler EXCEPT !.op = "delete_for_me", !.socket = Http,
                        !.pc = "check", !.messageId = messageId, !.userId = userId])
  /\ done' = NoDone
  /\ UNCHANGED <<Store, now, Sockets, inbox>>

\* await messageCheck, then 404 on no row
ForMeCheck(h) ==
  /\ h.op = "delete_for_me" /\ h.pc = "check"
  /\ IF ParticipantCheck(h.messageId, h.userId) = {}
     THEN /\ handlers' = Drop(h)
          /\ done' = DeleteDone(h, "404")
          /\ UNCHANGED inbox
     ELSE /\ handlers' = Move(h, [h EXCEPT !.pc = "mark"])
          /\ done' = NoDone
          /\ UNCHANGED inbox
  /\ UNCHANGED <<Store, now, Sockets, ops>>

\* await INSERT INTO deleted_messages ... ON CONFLICT DO NOTHING, then success
ForMeMark(h) ==
  /\ h.op = "delete_for_me" /\ h.pc = "mark"
  /\ IF ~MarkerForeignKeysHold(h.messageId, h.userId)
     THEN HttpFailed(h) /\ UNCHANGED deleted_messages
     ELSE /\ deleted_messages' = InsertMarker(h.messageId, h.userId)
          /\ handlers' = Drop(h)
          /\ done' = [DeleteDone(h, "200") EXCEPT
                        !.existed = BagIn(Marker(h.messageId, h.userId), deleted_messages)]
          /\ UNCHANGED inbox
  /\ UNCHANGED <<messages, nextId, inserted, now, Sockets, ops>>

\* ---------------------------------------------------------------- delete for everyone (HTTP)
\* DELETE /api/messages/delete-for-everyone
DeleteForEveryone(messageId, userId) ==
  /\ Accept
  /\ handlers' = Add([NoHandler EXCEPT !.op = "delete_for_everyone", !.socket = Http,
                        !.pc = "check", !.messageId = messageId, !.userId = userId])
  /\ done' = NoDone
  /\ UNCHANGED <<Store, now, Sockets, inbox>>

\* await messageCheck, then 403 on no row
EveryoneCheck(h) ==
  /\ h.op = "delete_for_everyone" /\ h.pc = "check"
  /\ IF SenderCheck(h.messageId, h.userId) = {}
     THEN /\ handlers' = Drop(h)
          /\ done' = DeleteDone(h, "403")
          /\ UNCHANGED inbox
     ELSE /\ handlers' = Move(h, [h EXCEPT !.pc = "details"])
          /\ done' = NoDone
          /\ UNCHANGED inbox
  /\ UNCHANGED <<Store, now, Sockets, ops>>

\* await messageDetails: rows[0] is kept for the notification, undefined on no row
EveryoneDetails(h) ==
  /\ h.op = "delete_for_everyone" /\ h.pc = "details"
  /\ IF MessageDetails(h.messageId) = {}
     THEN handlers' = Move(h, [h EXCEPT !.pc = "delete"])
     ELSE \E m \in MessageDetails(h.messageId) :
            handlers' = Move(h, [h EXCEPT !.pc = "delete", !.rowSender = m.sender_id,
                                         !.rowReceiver = m.receiver_id])
  /\ done' = NoDone
  /\ UNCHANGED inbox
  /\ UNCHANGED <<Store, now, Sockets, ops>>

\* await DELETE FROM messages WHERE id = $1
EveryoneDelete(h) ==
  /\ h.op = "delete_for_everyone" /\ h.pc = "delete"
  /\ IF DeleteIsRestricted(h.messageId)
     THEN HttpFailed(h) /\ UNCHANGED messages
     ELSE /\ messages' = DeleteMessageRow(h.messageId)
          /\ handlers' = Move(h, [h EXCEPT !.pc = "unmark",
                                    !.removed = (messages' # messages)])
          /\ done' = NoDone
          /\ UNCHANGED inbox
  /\ UNCHANGED <<deleted_messages, nextId, inserted, now, Sockets, ops>>

\* await DELETE FROM deleted_messages WHERE message_id = $1, then the two
\* io.to(...).emit('message_deleted') if (message), then success
EveryoneUnmark(h) ==
  /\ h.op = "delete_for_everyone" /\ h.pc = "unmark"
  /\ deleted_messages' = DeleteMarkers(h.messageId)
  /\ inbox' = IF h.rowSender = 0 THEN inbox
              ELSE ToRoom(ToRoom(inbox, h.rowSender, DeletedEvent(h.messageId)),
                          h.rowReceiver, DeletedEvent(h.messageId))
  /\ handlers' = Drop(h)
  /\ done' = [DeleteDone(h, "200") EXCEPT !.sent = (h.rowSender # 0)]
  /\ UNCHANGED <<messages, nextId, inserted, now, Sockets, ops>>

\* ---------------------------------------------------------------- delete_message (socket)
\* the catch block of delete_message
SocketDeleteFailed(h) ==
  /\ inbox' = ToSocket(inbox, h.socket, ErrorEvent("delete_error"))
  /\ handlers' = Drop(h)
  /\ done' = [DeleteDone(h, "error") EXCEPT !.fault = TRUE]

\* socket.on('delete_message'): the first query of the chosen branch is issued
DeleteMessage(s, messageId, userId, deleteType) ==
  /\ conn[s] = "connected"
  /\ Accept
  /\ handlers' = Add([NoHandler EXCEPT
                        !.op = "delete_message", !.socket = s,
                        !.pc = IF deleteType = "for_me" THEN "mark" ELSE "check",
                        !.messageId = messageId, !.userId = userId,
                        !.deleteType = deleteType])
  /\ done' = NoDone
  /\ UNCHANGED <<Store, now, Sockets, inbox>>

\* mutant: for_me notifies with io.emit instead of socket.emit
SocketMarkToAll(h) ==
  /\ h.op = "delete_message" /\ h.pc = "mark"
  /\ IF ~MarkerForeignKeysHold(h.messageId, h.userId)
     THEN SocketDeleteFailed(h) /\ UNCHANGED deleted_messages
     ELSE /\ deleted_messages' = InsertMarker(h.messageId, h.userId)
          /\ inbox' = ToEveryone(inbox, h.userId, DeletedEvent(h.messageId))
          /\ handlers' = Drop(h)
          /\ done' = [DeleteDone(h, "ok") EXCEPT
                        !.existed = BagIn(Marker(h.messageId, h.userId), deleted_messages),
                        !.sent = TRUE]
  /\ UNCHANGED <<messages, nextId, inserted, now, Sockets, ops>>

\* for_me: await INSERT ... ON CONFLICT DO NOTHING, then socket.emit('message_deleted')
SocketMark(h) ==
  /\ h.op = "delete_message" /\ h.pc = "mark"
  /\ IF ~MarkerForeignKeysHold(h.messageId, h.userId)
     THEN SocketDeleteFailed(h) /\ UNCHANGED deleted_messages
     ELSE /\ deleted_messages' = InsertMarker(h.messageId, h.userId)
          /\ inbox' = ToSocket(inbox, h.socket, DeletedEvent(h.messageId))
          /\ handlers' = Drop(h)
          /\ done' = [DeleteDone(h, "ok") EXCEPT
                        !.existed = BagIn(Marker(h.messageId, h.userId), deleted_messages),
                        !.sent = TRUE]
  /\ UNCHANGED <<messages, nextId, inserted, now, Sockets, ops>>

\* for_everyone: await SELECT ... WHERE id = $1 AND sender_id = $2; nothing on no row
SocketCheck(h) ==
  /\ h.op = "delete_message" /\ h.pc = "check"
  /\ IF SenderCheck(h.messageId, h.userId) = {}
     THEN /\ handlers' = Drop(h)
          /\ done' = DeleteDone(h, "ignored")
          /\ UNCHANGED inbox
     ELSE \E m \in SenderCheck(h.messageId, h.userId) :
          /\ handlers' = Move(h, [h EXCEPT !.pc = "delete", !.rowSender = m.sender_id,
                                           !.rowReceiver = m.receiver_id])
          /\ done' = NoDone
          /\ UNCHANGED inbox
  /\ UNCHANGED <<Store, now, Sockets, ops>>

\* for_everyone: await DELETE FROM messages WHERE id = $1
SocketDelete(h) ==
  /\ h.op = "delete_message" /\ h.pc = "delete"
  /\ IF DeleteIsRestricted(h.messageId)
     THEN SocketDeleteFailed(h) /\ UNCHANGED messages
     ELSE /\ messages' = DeleteMessageRow(h.messageId)
          /\ handlers' = Move(h, [h EXCEPT !.pc = "unmark",
                                    !.removed = (messages' # messages)])
          /\ done' = NoDone
          /\ UNCHANGED inbox
  /\ UNCHANGED <<deleted_messages, nextId, inserted, now, Sockets, ops>>

\* for_everyone: await DELETE FROM deleted_messages ..., then the two io.to(...).emit
SocketUnmark(h) ==
  /\ h.op = "delete_message" /\ h.pc = "unmark"
  /\ deleted_messages' = DeleteMarkers(h.messageId)
  /\ inbox' = ToRoom(ToRoom(inbox, h.rowSender, DeletedEvent(h.messageId)),
                     h.rowReceiver, DeletedEvent(h.messageId))
  /\ handlers' = Drop(h)
  /\ done' = [DeleteDone(h, "ok") EXCEPT !.sent = TRUE]
  /\ UNCHANGED <<messages, nextId, inserted, now, Sockets, ops>>

\* ---------------------------------------------------------------- message_status_update
\* the payload of the message_status_update event
StatusEvent(messageId, status) ==
  [NoEvent EXCEPT !.type = "message_status_update", !.id = messageId, !.status = status]

\* mutant: the UPDATE writes the value into message_text
UpdateStatusWrongColumn(messageId, status) ==
  {IF m.id = messageId THEN [m EXCEPT !.message_text = status] ELSE m : m \in messages}

\* UPDATE messages SET status = $1 WHERE id = $2
UpdateStatus(messageId, status) ==
  {IF m.id = messageId THEN [m EXCEPT !.status = status] ELSE m : m \in messages}

\* An exception that no handler catches (a throw in a handler without try, a
\* rejected promise that nobody awaits) ends the process: every socket is
\* disconnected and the handlers waiting at an await are gone with it.
Crash(op, s) ==
  /\ conn' = [x \in Sessions |-> "disconnected"]
  /\ rooms' = [x \in Sessions |-> {}]
  /\ handlers' = EmptyBag
  /\ done' = [NoDone EXCEPT !.op = op, !.socket = s, !.status = "crash", !.fault = TRUE]

\* socket.on('message_status_update'): the UPDATE is issued and not awaited, the
\* event is emitted to the room of userId at once, and the handler ends;
\* userId.toString() throws when the payload has no userId
MessageStatusUpdate(s, messageId, status, userId) ==
  /\ conn[s] = "connected"
  /\ Accept
  /\ IF userId = Missing
     THEN /\ Crash("message_status_update", s)
          /\ UNCHANGED inbox
     ELSE /\ handlers' = Add([NoHandler EXCEPT !.op = "message_status_update",
                                !.socket = s, !.pc = "update", !.messageId = messageId,
                                !.userId = userId, !.status = status])
          /\ inbox' = ToRoom(inbox, userId, StatusEvent(messageId, status))
          /\ done' = [NoDone EXCEPT !.op = "message_status_update", !.socket = s,
                                    !.status = "ok", !.messageId = messageId,
                                    !.userId = userId, !.sent = TRUE]
          /\ UNCHANGED Sockets
  /\ UNCHANGED <<Store, now>>

\* the UPDATE issued by message_status_update runs; nothing waits for it.  When
\* it rejects, the rejection is unhandled: the runtime only warns about it, or
\* ends the process (the default of the newer Node versions).
StatusUpdate(h, ok, fatal) ==
  /\ h.op = "message_status_update" /\ h.pc = "update"
  /\ IF ok
     THEN /\ ~fatal
          /\ messages' = UpdateStatus(h.messageId, h.status)
          /\ handlers' = Drop(h)
          /\ done' = NoDone
          /\ UNCHANGED Sockets
     ELSE /\ UNCHANGED messages
          /\ IF fatal
             THEN Crash("message_status_update", h.socket)
             ELSE /\ handlers' = Drop(h)
                  /\ done' = NoDone
                  /\ UNCHANGED Sockets
  /\ UNCHANGED <<deleted_messages, nextId, inserted, now, inbox, ops>>

\* ---------------------------------------------------------------- user_typing, user_online
\* the payload of user_typing
TypingEvent(userId, isTyping, chatWithUserId) ==
  [NoEvent EXCEPT !.type = "user_typing", !.userId = userId, !.isTyping = isTyping,
                  !.chatWithUserId = chatWithUserId]

\* the payload of user_online; lastSeen is the time of the emit
OnlineEvent(userId, isOnline) ==
  [NoEvent EXCEPT !.type = "user_online", !.userId = userId, !.isOnline = isOnline,
                  !.lastSeen = now]

\* socket.on('user_typing'): chatWithUserId.toString() throws when the payload
\* has no chatWithUserId, and the handler has no try
UserTyping(s, userId, isTyping, chatWithUserId) ==
  /\ conn[s] = "connected"
  /\ Accept
  /\ IF chatWithUserId = Missing
     THEN /\ Crash("user_typing", s)
          /\ UNCHANGED inbox
     ELSE /\ inbox' = ToRoom(inbox, chatWithUserId,
                             TypingEvent(userId, isTyping, chatWithUserId))
          /\ done' = [NoDone EXCEPT !.op = "user_typing", !.socket = s,
                                    !.status = "ok", !.userId = userId,
                                    !.peer = chatWithUserId, !.sent = TRUE]
          /\ UNCHANGED <<Sockets, handlers>>
  /\ UNCHANGED <<Store, now>>

\* socket.on('user_online'): io.emit to every connected socket
UserOnline(s, userId, isOnline) ==
  /\ conn[s] = "connected"
  /\ Accept
  /\ inbox' = ToAll(inbox, OnlineEvent(userId, isOnline))
  /\ done' = [NoDone EXCEPT !.op = "user_online", !.socket = s, !.status = "ok",
                            !.userId = userId, !.sent = TRUE]
  /\ UNCHANGED <<Store, now, Sockets, handlers>>

\* ---------------------------------------------------------------- specification
\* The server with sockets S that join the rooms J, send_message requests with
\* senderId and receiverId in R, and the other requests about the messages M on
\* behalf of the users U.
Server(S, J, R, U, M) ==
  \/ \E s \in S, u \in J : JoinUser(s, u)
  \/ \E s \in S : Disconnect(s)
  \/ \E s \in S, a, b \in R, t \in Texts : SendMessage(s, a, b, t)
  \/ \E h \in Suspended, ok \in BOOLEAN, at \in 0 .. MaxClock : SendInsert(h, ok, at)
  \/ \E h \in Suspended, ok \in BOOLEAN : SendLookup(h, ok)
  \/ \E a, b \in U : GetMessages(a, b)
  \/ \E m \in M, u \in U : DeleteForMe(m, u)
  \/ \E h \in Suspended : ForMeCheck(h)
  \/ \E h \in Suspended : ForMeMark(h)
  \/ \E m \in M, u \in U : DeleteForEveryone(m, u)
  \/ \E h \in Suspended : EveryoneCheck(h)
  \/ \E h \in Suspended : EveryoneDetails(h)
  \/ \E h \in Suspended : EveryoneDelete(h)
  \/ \E h \in Suspended : EveryoneUnmark(h)
  \/ \E s \in S, m \in M, u \in U, t \in {"for_me", "for_everyone"} :
        DeleteMessage(s, m, u, t)
  \/ \E h \in Suspended : SocketMark(h)
  \/ \E h \in Suspended : SocketCheck(h)
  \/ \E h \in Suspended : SocketDelete(h)
  \/ \E h \in Suspended : SocketUnmark(h)

\* one socket, three users
Next == Server({"s1"}, {1, 2}, {Missing} \cup Users, Users, MessageIds)

Spec == Init /\ [][Next]_vars

\* two sockets and the rooms of three users, messages between two of them
NextRooms == Server(Sessions, Users, {1, 2}, {1, 2}, {1})

SpecRooms == Init /\ [][NextRooms]_vars

\* one socket, two users and one message id, with status updates
NextStatus ==
  \/ Server({"s1"}, {1}, {1, 2}, {1, 2}, {1})
  \/ \E v \in Statuses, u \in {Missing, 1, 2} : MessageStatusUpdate("s1", 1, v, u)
  \/ \E h \in Suspended, ok, fatal \in BOOLEAN : StatusUpdate(h, ok, fatal)
  \/ \E b \in BOOLEAN, u \in {Missing, 2} : UserTyping("s1", 1, b, u)
  \/ \E b \in BOOLEAN : UserOnline("s1", 1, b)

SpecStatus == Init /\ [][NextStatus]_vars

\* ---------------------------------------------------------------- properties
Received(s) == BagToSet(inbox[s])

Range(seq) == {seq[i] : i \in 1 .. Len(seq)}

\* the handler h took its step
Stepped(h) == CopiesIn(h, handlers') < CopiesIn(h, handlers)

IsEveryone(d) ==
  \/ d.op = "delete_for_everyone"
  \/ d.op = "delete_message" /\ d.status \in {"ok", "ignored", "error"} /\ ~d.forMe

IsForMe(d) ==
  \/ d.op = "delete_for_me"
  \/ d.op = "delete_message" /\ d.forMe

Succeeded(d) == d.status \in {"200", "ok"}

\* C1: no socket has received a new_message whose id was not inserted into
\* messages before: the broadcast of a send comes after its INSERT.
C1_BroadcastAfterInsert ==
  \A s \in Sessions : \A e \in Received(s) :
    e.type = "new_message" => e.id \in inserted

C1_Witness ==
  \E s \in Sessions : \E e \in Received(s) : e.type = "new_message"

\* C2: when a send_message handler has ended, new_message was published for it
\* if and only if its row is in history(sender, receiver) right then.
C2_AtomicVisibility ==
  done.op = "send_message" =>
    (done.sent <=>
       \E r \in History(done.userId, done.peer) :
         \E m \in Range(r) : m.id = done.messageId)

\* C3: when a delete-for-everyone has succeeded, the message is in no history
\* and every socket joined to the room of the stored row's sender or receiver
\* has received message_deleted for it.
C3_DeleteForEveryoneSymmetry ==
  (IsEveryone(done) /\ Succeeded(done)) =>
    /\ \A a, b \in Users : \A r \in History(a, b) :
         \A m \in Range(r) : m.id # done.messageId
    /\ done.sent
    /\ \A s \in InRoom(done.rowSender) \cup InRoom(done.rowReceiver) :
         BagIn(DeletedEvent(done.messageId), inbox[s])

\* C4: while user U has a marker on a stored message between U and another user
\* V, history(U, V) leaves the message out, and history(V, U) includes it unless
\* V has a marker of their own on it.
C4_DeleteForMeScope ==
  \A d \in Markers : \A m \in messages :
    (/\ m.id = d.message_id
     /\ d.user_id \in {m.sender_id, m.receiver_id}
     /\ m.sender_id # m.receiver_id) =>
      LET U == d.user_id
          V == IF m.sender_id = U THEN m.receiver_id ELSE m.sender_id
      IN /\ \A r \in History(U, V) : m \notin Range(r)
         /\ \A r \in History(V, U) :
              m \in Range(r) <=> ~BagIn(Marker(m.id, V), deleted_messages)

C4_Witness ==
  /\ IsForMe(done) /\ Succeeded(done)
  /\ \E m \in messages :
       /\ m.id = done.messageId
       /\ done.userId \in {m.sender_id, m.receiver_id}
       /\ m.sender_id # m.receiver_id
       /\ \E r \in History(IF m.sender_id = done.userId THEN m.receiver_id
                            ELSE m.sender_id, done.userId) : m \in Range(r)

C6_SenderDeleteSucceeds ==
  (IsEveryone(done) /\ done.rowSender # 0 /\ done.rowSender = done.userId) =>
    /\ Succeeded(done)
    /\ \A m \in messages : m.id # done.messageId
    /\ \A d \in Markers : d.message_id # done.messageId

\* C7: every marker names a participant of the message it references.
C7_MarkersOfParticipants ==
  \A d \in Markers : \E m \in messages :
    m.id = d.message_id /\ d.user_id \in {m.sender_id, m.receiver_id}

\* C8: deleted_messages never holds two markers of one (message, user) pair,
\* and a delete-for-me whose marker is already there succeeds and changes
\* neither table.
C8_DeleteForMeIdempotent ==
  [][/\ \A d \in BagToSet(deleted_messages') : CopiesIn(d, deleted_messages') = 1
     /\ \A h \in Suspended :
          (/\ h.pc = "mark"
           /\ BagIn(Marker(h.messageId, h.userId), deleted_messages)
           /\ Stepped(h)) =>
            /\ Succeeded(done') /\ done'.existed
            /\ UNCHANGED <<messages, deleted_messages>>]_vars

C8_Witness == IsForMe(done) /\ Succeeded(done) /\ done.existed

\* C9: history(U, V) is exactly the stored messages between U and V that carry
\* no marker of U, each once.
ExpectedHistory(U, V) ==
  {m \in messages :
     /\ {m.sender_id, m.receiver_id} = {U, V}
     /\ ~BagIn(Marker(m.id, U), deleted_messages)}

C9_HistoryExact ==
  /\ \A U, V \in Users : \A r \in History(U, V) :
       /\ Range(r) = ExpectedHistory(U, V)
       /\ Len(r) = Cardinality(ExpectedHistory(U, V))
  /\ done.op = "get_messages" =>
       /\ Range(done.messages) = ExpectedHistory(done.userId, done.peer)
       /\ Len(done.messages) = Cardinality(ExpectedHistory(done.userId, done.peer))

C9_Witness ==
  /\ done.op = "get_messages" /\ Len(done.messages) = 1
  /\ BagIn(Marker(done.messages[1].id, done.peer), deleted_messages)
  /\ done.peer # done.userId

\* C10: every history is non-decreasing in created_at.
Ordered(r) ==
  \A i, j \in 1 .. Len(r) : i < j => r[i].created_at <= r[j].created_at

C10_HistoryOrdered ==
  /\ \A U, V \in Users : \A r \in History(U, V) : Ordered(r)
  /\ done.op = "get_messages" => Ordered(done.messages)

\* two messages of one conversation, the later id with the earlier created_at
C10_Witness ==
  \E a, b \in messages :
    /\ {a.sender_id, a.receiver_id} = {b.sender_id, b.receiver_id}
    /\ a.id < b.id /\ a.created_at > b.created_at
    /\ \E r \in History(a.sender_id, a.receiver_id) : r = <<b, a>>

Complete(senderId, receiverId, messageText) ==
  senderId # 0 /\ receiverId # 0 /\ messageText # ""

C12_NoSelfMessages ==
  \A m \in messages : m.sender_id # m.receiver_id

\* the copies of event e that the step adds to the inbox of socket s
Gained(s, e) == CopiesIn(e, inbox'[s]) - CopiesIn(e, inbox[s])

\* the emits that reach socket s when e is published to the rooms a and b
Emits(s, a, b) ==
  (IF s \in InRoom(a) THEN 1 ELSE 0) + (IF s \in InRoom(b) THEN 1 ELSE 0)

\* C13: the step in which the INSERT of a send fails emits message_error to
\* the requesting socket, stores nothing and publishes no new_message; and no
\* step publishes a new_message partially: a step that adds a new_message to
\* any inbox adds it for every socket of the receiver's room and every socket
\* of the sender's room.
C13_NoPartialBroadcast ==
  [][/\ (done'.op = "send_message" /\ done'.status = "error" /\ done'.messageId = 0) =>
          /\ UNCHANGED <<messages, deleted_messages>>
          /\ inbox' = Deliver(inbox, {s \in {done'.socket} : conn[s] = "connected"},
                              ErrorEvent("message_error"))
     /\ \A x \in Sessions : \A e \in BagToSet(inbox'[x]) :
          (e.type = "new_message" /\ Gained(x, e) > 0) =>
             \A s \in Sessions : Gained(s, e) = Emits(s, e.receiverId, e.senderId)]_vars

C13_Witness ==
  /\ done.op = "send_message" /\ done.status = "error" /\ done.messageId = 0
  /\ BagIn(ErrorEvent("message_error"), inbox[done.socket])
  /\ InRoom(done.peer) # {} /\ InRoom(done.userId) # {}
  /\ \A s \in Sessions : \A e \in Received(s) : e.type # "new_message"

\* C14: a send whose row was stored ends with new_message published and
\* without message_error, whether or not the lookup of the sender's name
\* succeeded.
C14_LookupFailureNonFatal ==
  (done.op = "send_message" /\ done.messageId \in inserted) =>
    (done.status = "ok" /\ ~done.fault)

\* socket s gets the new_message of message id in this step
GetsNewMessage(s, id) ==
  \E e \in BagToSet(inbox'[s]) :
    e.type = "new_message" /\ e.id = id /\ Gained(s, e) > 0

\* C15: the step that publishes a send from S to R delivers its new_message to
\* every socket that is joined to the room of S or of R at that moment, and
\* leaves the inbox of every other socket as it was.
C15_DeliveredToAllSessions ==
  [][(done'.op = "send_message" /\ done'.status = "ok") =>
       \A s \in Sessions :
         IF s \in InRoom(done'.userId) \cup InRoom(done'.peer)
         THEN GetsNewMessage(s, done'.messageId)
         ELSE inbox'[s] = inbox[s]]_vars

\* two sockets of the receiver, who is not the sender, have both got the message
C15_Witness ==
  /\ done.op = "send_message" /\ done.status = "ok" /\ done.userId # done.peer
  /\ InRoom(done.peer) = Sessions /\ InRoom(done.userId) = {}
  /\ \A s \in Sessions : \E e \in Received(s) :
       e.type = "new_message" /\ e.id = done.messageId

\* a socket joined only to the room of a third user has got nothing
C15_OtherRoomReached ==
  /\ done.op = "send_message" /\ done.status = "ok" /\ done.userId # done.peer
  /\ \E s \in Sessions :
       /\ conn[s] = "connected" /\ rooms[s] # {}
       /\ rooms[s] \cap {done.userId, done.peer} = {}
       /\ inbox[s] = EmptyBag
  /\ \E s \in Sessions : \E e \in Received(s) : e.id = done.messageId

\* C16: every marker references a stored message, in every state between the
\* queries of the delete handlers too, and a step removes a marker only if
\* the message it references is not stored after the step.
C16_MarkersReferenceMessages ==
  /\ [](\A d \in Markers : \E m \in messages : m.id = d.message_id)
  /\ [][\A d \in Markers :
          ~BagIn(d, deleted_messages') => \A m \in messages' : m.id # d.message_id]_vars

\* a delete-for-me has just put a marker on a message while a delete-for-everyone
\* of that message is between its permission check and its DELETE
C16_Witness ==
  /\ IsForMe(done) /\ Succeeded(done) /\ ~done.existed
  /\ BagIn(Marker(done.messageId, done.userId), deleted_messages)
  /\ \E h \in Suspended :
       /\ h.op \in {"delete_for_everyone", "delete_message"}
       /\ h.pc \in {"details", "delete"}
       /\ h.messageId = done.messageId

\* C17: a delete-for-everyone that is answered with success is the one whose
\* DELETE removed the row, and it published message_deleted; a request that
\* found the row already gone does not succeed.
C17_HardDeleteAtomic ==
  (IsEveryone(done) /\ Succeeded(done)) => (done.removed /\ done.sent)

\* C18: when a socket delete_message for_everyone has been refused (no stored
\* message with that id and that sender), the requesting socket, if still
\* connected, has received delete_error.
C18_RefusalReported ==
  (/\ done.op = "delete_message" /\ ~done.forMe /\ done.status = "ignored"
   /\ conn[done.socket] = "connected") =>
    BagIn(ErrorEvent("delete_error"), inbox[done.socket])

\* C19: the step in which a socket delete-for-me succeeds adds message_deleted
\* of the message to the inbox of the requesting socket, changes the inbox of
\* no other socket, whatever rooms it has joined, and leaves messages as it was.
C19_ForMeNotifiesRequesterOnly ==
  [][(done'.op = "delete_message" /\ done'.forMe /\ done'.status = "ok") =>
       /\ messages' = messages
       /\ \A s \in Sessions :
            inbox'[s] = IF s = done'.socket /\ conn[s] = "connected"
                        THEN inbox[s] (+) SetToBag({DeletedEvent(done'.messageId)})
                        ELSE inbox[s]]_vars

\* the requester has got message_deleted while another socket, joined to the
\* room of the other participant, has got nothing
C19_Witness ==
  /\ done.op = "delete_message" /\ done.forMe /\ done.status = "ok"
  /\ BagIn(DeletedEvent(done.messageId), inbox[done.socket])
  /\ \E m \in messages : \E s \in Sessions \ {done.socket} :
       /\ m.id = done.messageId
       /\ done.userId \in {m.sender_id, m.receiver_id}
       /\ s \in InRoom(IF m.sender_id = done.userId THEN m.receiver_id ELSE m.sender_id)
       /\ inbox[s] = EmptyBag

\* the place of a status in the order sent, delivered, read
Rank(status) ==
  CASE status = "sent" -> 1 [] status = "delivered" -> 2 [] status = "read" -> 3
    [] OTHER -> 0

\* C20: the status of every stored message is sent, delivered or read, and no
\* step moves the status of a message backward in that order.
C20_StatusMonotone ==
  /\ [](\A m \in messages : m.status \in {"sent", "delivered", "read"})
  /\ [][\A m \in messages : \A n \in messages' :
          n.id = m.id => Rank(n.status) >= Rank(m.status)]_vars

\* C21: the step in which the UPDATE of a status update runs and changes no
\* row (no message has the id, or the write failed) emits nothing, disconnects
\* no socket and leaves every other handler in place.
C21_StatusUpdateFailsSilently ==
  [][\A h \in Suspended :
       (/\ h.op = "message_status_update" /\ Stepped(h)
        /\ ops' = ops /\ messages' = messages) =>
         /\ inbox' = inbox
         /\ conn' = conn /\ rooms' = rooms
         /\ handlers' = Drop(h)]_vars

\* the same for an id that no message has: the UPDATE matches no row
C21_MissingIdIgnored ==
  [][\A h \in Suspended :
       (/\ h.op = "message_status_update" /\ Stepped(h) /\ ops' = ops
        /\ done'.status # "crash"
        /\ \A m \in messages : m.id # h.messageId) =>
         /\ UNCHANGED <<messages, deleted_messages, inbox, conn, rooms>>
         /\ handlers' = Drop(h)]_vars

\* C22: a handler that has ended on an error has caught it: the server is still
\* running and the requesting socket, if connected, has received an error event.
C22_HandlerErrorsCaught ==
  done.fault =>
    /\ done.status \in {"error", "500"}
    /\ (done.socket \in Sessions /\ conn[done.socket] = "connected") =>
          \E e \in Received(done.socket) : e.type \in {"message_error", "delete_error"}

\* C23: a send whose socket has disconnected goes on as any other send: its
\* INSERT stores the row unless the store fails, its broadcast reaches every
\* socket joined to the room of the sender or of the receiver, and the
\* disconnected socket receives nothing.
C23_DisconnectDoesNotCancel ==
  [][\A h \in Suspended :
       (h.op = "send_message" /\ conn[h.socket] = "disconnected" /\ Stepped(h)) =>
         /\ inbox'[h.socket] = inbox[h.socket]
         /\ IF h.pc = "insert"
            THEN \/ /\ done'.status = "error" /\ done'.fault
                    /\ messages' = messages
                 \/ /\ done' = NoDone
                    /\ \E m \in messages' \ messages :
                         /\ m.sender_id = h.senderId /\ m.receiver_id = h.receiverId
                         /\ m.message_text = h.messageText
                         /\ BagIn([h EXCEPT !.pc = "lookup", !.savedId = m.id,
                                            !.savedAt = m.created_at], handlers')
            ELSE \/ /\ done'.status = "error" /\ done'.fault
                    /\ inbox' = inbox
                 \/ /\ done'.status = "ok"
                    /\ \A s \in InRoom(h.senderId) \cup InRoom(h.receiverId) :
                         GetsNewMessage(s, h.savedId)]_vars

\* the send of a socket that has disconnected has been published to the other
\* socket, and its row is stored
C23_Witness ==
  /\ done.op = "send_message" /\ done.status = "ok"
  /\ conn[done.socket] = "disconnected"
  /\ \E m \in messages : m.id = done.messageId
  /\ \E s \in Sessions \ {done.socket} : \E e \in Received(s) :
       e.type = "new_message" /\ e.id = done.messageId
  /\ \A e \in Received(done.socket) : e.id # done.messageId

\* C24: when a send has been published while no socket was joined to the
\* receiver's room, its row had been inserted and every socket of the sender's
\* room has its new_message; and a history fetched by a user holds every stored
\* message between the two users that carries no marker of that user, whether
\* or not a socket of the user ever received its new_message.
C24_OfflineReceiver ==
  /\ (done.op = "send_message" /\ done.status = "ok" /\ InRoom(done.peer) = {}) =>
       /\ done.messageId \in inserted
       /\ \A s \in InRoom(done.userId) : \E e \in Received(s) :
            e.type = "new_message" /\ e.id = done.messageId
  /\ done.op = "get_messages" =>
       \A m \in messages :
         (/\ {m.sender_id, m.receiver_id} = {done.userId, done.peer}
          /\ ~BagIn(Marker(m.id, done.userId), deleted_messages)) =>
           m \in Range(done.messages)

\* the receiver, whose socket joined after the broadcast and has received no
\* new_message, fetches the history and finds the message the sender's socket got
C24_Witness ==
  /\ done.op = "get_messages" /\ done.userId # done.peer
  /\ InRoom(done.userId) # {}
  /\ \A s \in InRoom(done.userId) : inbox[s] = EmptyBag
  /\ \E m \in Range(done.messages) :
       /\ m.receiver_id = done.userId
       /\ \E s \in Sessions : \E e \in Received(s) :
            e.type = "new_message" /\ e.id = m.id

\* C25: the ids of the stored messages are unique; a row that a step adds has
\* an id larger than every id inserted before, deleted ones included, so the id
\* of a deleted message never comes back; and two new_message events with one
\* id are the same event.
C25_IdsNeverReused ==
  /\ [](/\ \A m, n \in messages : m.id = n.id => m = n
        /\ \A m \in messages : m.id \in inserted
        /\ \A s, x \in Sessions : \A e \in Received(s) : \A f \in Received(x) :
             (e.type = "new_message" /\ f.type = "new_message" /\ e.id = f.id) => e = f)
  /\ [][\A m \in messages' :
          m.id \notin {n.id : n \in messages} =>
            \A i \in inserted : i < m.id]_vars

\* a message was deleted for everyone and a later send has got a larger id
C25_Witness ==
  \E i \in inserted :
    /\ \A m \in messages : m.id # i
    /\ \E m \in messages : m.id > i

\* C26: a step changes nothing but the status of a message that stays stored:
\* its id, sender, receiver, text and created_at are after the step what they
\* were before it.
C26_MessagesImmutable ==
  [][\A m \in messages : \A n \in messages' :
       n.id = m.id => n = [m EXCEPT !.status = n.status]]_vars

\* the status of a stored message has been changed in place
C26_Witness ==
  \E m \in messages :
    /\ m.status = "read"
    /\ m = [MessageRow(m.id, m.sender_id, m.receiver_id, m.message_text, m.created_at)
              EXCEPT !.status = "read"]

\* C27: no socket holds more than one copy of the new_message of a message.
C27_AtMostOnce ==
  \A s \in Sessions : \A e \in Received(s) :
    e.type = "new_message" => CopiesIn(e, inbox[s]) <= 1

\* C28: a step that gives a socket the message_status_update of a stored
\* message finds that status already stored for the message.
C28_WriteBeforeBroadcast ==
  [][\A s \in Sessions : \A e \in BagToSet(inbox'[s]) :
       (e.type = "message_status_update" /\ Gained(s, e) > 0) =>
          \A m \in messages : m.id = e.id => m.status = e.status]_vars

\* C29: the INSERT step of a send hands the id and created_at of the row it
\* added to that send's handler; the new_message events the send publishes
\* carry that id and created_at, the sender, receiver and text of the request
\* and status sent; and every new_message agrees with the stored row of its id.
C29_PayloadOfOwnRow ==
  /\ [](\A s \in Sessions : \A e \in Received(s) : \A m \in messages :
          (e.type = "new_message" /\ e.id = m.id) =>
            /\ e.senderId = m.sender_id /\ e.receiverId = m.receiver_id
            /\ e.messageText = m.message_text /\ e.timestamp = m.created_at
            /\ e.status = "sent")
  /\ [][\A h \in Suspended :
          (h.op = "send_message" /\ Stepped(h)) =>
            IF h.pc = "insert"
            THEN \A m \in messages' :
                   m.id \notin {n.id : n \in messages} =>
                     /\ m = MessageRow(m.id, h.senderId, h.receiverId, h.messageText,
                                       m.created_at)
                     /\ BagIn([h EXCEPT !.pc = "lookup", !.savedId = m.id,
                                        !.savedAt = m.created_at], handlers')
            ELSE \A s \in Sessions : \A e \in BagToSet(inbox'[s]) :
                   (e.type = "new_message" /\ Gained(s, e) > 0) =>
                     /\ e.id = h.savedId /\ e.timestamp = h.savedAt
                     /\ e.senderId = h.senderId /\ e.receiverId = h.receiverId
                     /\ e.messageText = h.messageText /\ e.status = "sent"]_vars

\* two sends were in flight together, the one inserted first was published
\* last, and a socket has both events, each with the id of its own row
C29_Witness ==
  /\ done.op = "send_message" /\ done.status = "ok"
  /\ \E s \in Sessions : \E e, f \in Received(s) :
       /\ e.type = "new_message" /\ f.type = "new_message"
       /\ e.id = done.messageId /\ f.id > e.id
       /\ \E m \in messages : m.id = e.id /\ m.created_at = e.timestamp
       /\ \E m \in messages : m.id = f.id /\ m.created_at = f.timestamp

\* C30: a step that gives a socket the new_message of a message finds the row
\* of that message stored: no new_message of a message follows its deletion.
C30_NoNewMessageAfterDelete ==
  [][\A s \in Sessions : \A e \in BagToSet(inbox'[s]) :
       (e.type = "new_message" /\ Gained(s, e) > 0) =>
          \E m \in messages : m.id = e.id]_vars

====
